---------------------------- MODULE Spec2Model ----------------------------
(***************************************************************************)
(* Sliding-window sender (client.py, class TCPClient) composed with the    *)
(* receiver (server.py, class TCPServer) over an ordered reliable stream.  *)
(* The receiver of server_fixed.py is modelled beside it (the Fixed...     *)
(* definitions), on the same variables.                                    *)
(*                                                                         *)
(* The sender runs three threads that share one lock: the admission loop   *)
(* of start(), receive_acks() and handle_retransmissions().  Every         *)
(* critical section ("with self.lock") is one action.  The receiver is one *)
(* thread per connection (handle_client), one connection at a time.  The   *)
(* stream is a pair of FIFO queues; one send() arrives as one recv().      *)
(* A payload on the stream is kept by what the reader's parsing makes of   *)
(* it: text that is not JSON, a JSON object, any other JSON value.         *)
(*                                                                         *)
(* Not modelled: wall-clock timestamps and the time series kept only for   *)
(* plotting (window_sizes, window_timestamps, seq_timestamps), and the    *)
(* window_size field of an announcement, which the receiver only appends   *)
(* to such a series.                                                       *)
(***************************************************************************)
EXTENDS Integers, Sequences, FiniteSets, TLC

\* ------------------------------------------------------------------ bounds
\* total_packets ranges over 1..MaxPackets
MaxPackets == 3
\* retransmit_after ranges over 0..MaxRetransmitAfter
MaxRetransmitAfter == 2
\* small initial window sizes range over 0..MaxSmallWindow
MaxSmallWindow == 2
\* against an arbitrary peer total_packets ranges over 1..MaxAnyAckPackets
MaxAnyAckPackets == 2
\* the largest total_packets of the single-loss scenario
MaxDropThreePackets == 6
\* an arbitrary peer announces sequence numbers at most MaxPeerGap beyond
\* the highest one the receiver has seen
MaxPeerGap == 2
\* an arbitrary peer makes the receiver process at most MaxAnnounced payloads
MaxAnnounced == 4
\* the receiver accepts at most MaxConnections connections, one after another
MaxConnections == 2

\* ------------------------------------------------------- program constants
\* client.py:244  "if self.window_size < 100:  # Maximum window size"
MaxWindow == 100

\* server.py:148  "if self.total_packets_received % 1000 == 0"
GoodputPeriod == 1000

\* the receiver of a long connection is taken up two announcements before
\* its first goodput sample
Warmup == GoodputPeriod - 2

\* Python's None, the result of message.get('seq_num') when the JSON object
\* has no such key; the integers on the wire are 0 or more
NoneSeq == -1

\* random.random() yields a value in [0, 1); it and drop_probability are
\* kept in hundredths.  The two draws are the extremes of the range.
RandomDraws == {0, 99}
\* drop_probability (0-1 in the configuration): never, sometimes, always
DropProbabilities == {0, 50, 100}
\* initial window sizes: small ones and the ones around the maximum
WindowSizes == (0..MaxSmallWindow) \cup {MaxWindow - 1, MaxWindow, MaxWindow + 1}

VARIABLES
    \* configuration (TCPClient.__init__)
    drop_probability, retransmit_after, total_packets, initial_window,
    \* sender state (TCPClient)
    window_size, base, next_seq_num,
    sent_packets, acked_packets, dropped_packets, packets_to_retransmit,
    total_sent, total_dropped, total_retransmitted, retransmission_counts,
    running,
    \* position of the three sender threads
    pcMain, pcAck, pcRetx,
    \* the stream: client_socket of the sender, the connection as the
    \* receiver has it, and the two directions
    sock, conn, c2s, s2c,
    \* receiver state (TCPServer)
    received_packets, missing_packets, highest_seq_received,
    total_packets_received, total_packets_expected, retransmission_stats,
    goodput_measurements,
    \* what calculate_final_statistics has logged, one entry per call
    final_statistics,
    \* history: an acknowledgment for an already acknowledged sequence number
    \* has been handled by receive_acks
    redelivered,
    \* history: the arguments of process_sequence_number, in call order
    announced,
    \* history: how many iterations receive_acks and handle_retransmissions
    \* have run since self.running was set to False (2 stands for more)
    after_stop

config == <<drop_probability, retransmit_after, total_packets, initial_window>>
window == <<window_size, base, next_seq_num, acked_packets>>
tracking == <<sent_packets, dropped_packets, packets_to_retransmit,
              total_sent, total_dropped, total_retransmitted,
              retransmission_counts>>
threads == <<running, pcMain, pcAck, pcRetx>>
wire == <<sock, conn, c2s, s2c>>
receiver == <<received_packets, missing_packets, highest_seq_received,
              total_packets_received, total_packets_expected,
              retransmission_stats, goodput_measurements, final_statistics>>
sender == <<window, tracking, threads>>
history == <<redelivered, announced, after_stop>>
vars == <<config, sender, wire, receiver, history>>

\* the sequence numbers of a run
SeqNums == 0..(total_packets - 1)

\* ack_num values an arbitrary peer may send: ack_num - 1 ranges from -1 to
\* one past the last sequence number
AckValues == 0..(MaxAnyAckPackets + 1)

\* ------------------------------------------------------------ wire codec
\* json.dumps({'seq_num': seq_num, 'window_size': ...})
Announcement(seq_num) == [kind |-> "object", seq_num |-> seq_num]

\* "network".encode() of connect(): text that json.loads rejects
NetworkToken == [kind |-> "text", seq_num |-> NoneSeq]

\* "Connection setup success".encode() of handle_client
SuccessToken == [field |-> "text", value |-> NoneSeq]

\* faulty variant of AckMessage: the acknowledgment is one too high
AckMessageOffByOne(seq_num) == [field |-> "ack_num", value |-> seq_num + 2]

\* json.dumps({'ack_num': seq_num + 1})
AckMessage(seq_num) == [field |-> "ack_num", value |-> seq_num + 1]

\* --------------------------------------------------------------- sender
\* faulty variant of ShouldDrop: the comparison admits equality
ShouldDropInclusive(r) == r <= drop_probability

\* random.random() < self.drop_probability
ShouldDrop(r) == r < drop_probability

\* faulty variant of RetransmitEntry: due at once, the delay is not added
RetransmitEntryNoDelay(seq_num) == [seq |-> seq_num, due |-> next_seq_num]

\* faulty variant of RetransmitEntry: the due point is counted from the
\* sequence number, not from next_seq_num
RetransmitEntryFromSeq(seq_num) ==
    [seq |-> seq_num, due |-> seq_num + retransmit_after]

\* the RetransmitEntry appended on a drop
RetransmitEntry(seq_num) ==
    [seq |-> seq_num, due |-> next_seq_num + retransmit_after]

\* faulty variant of NewBase: the loop does not stop at next_seq_num
RECURSIVE NewBaseUnbounded(_, _, _)
NewBaseUnbounded(b, acked, nxt) ==
    IF b \in acked THEN NewBaseUnbounded(b + 1, acked, nxt) ELSE b

\* while self.base in self.acked_packets and self.base < self.next_seq_num
RECURSIVE NewBase(_, _, _)
NewBase(b, acked, nxt) ==
    IF b \in acked /\ b < nxt THEN NewBase(b + 1, acked, nxt) ELSE b

\* faulty variant of GrowWindow: the window never grows
GrowWindowNever(w) == w

\* if self.window_size < 100: self.window_size += 1
GrowWindow(w) == IF w < MaxWindow THEN w + 1 ELSE w

\* the current window as the record the ack handler works on
Window == [base |-> base, next_seq_num |-> next_seq_num,
           window_size |-> window_size, acked_packets |-> acked_packets]

\* faulty variant of OnAck: no test whether the sequence number is already Acked
OnAckDup(w, ack_num) ==
    LET seq_num == ack_num - 1
        acked == w.acked_packets \cup {seq_num}
    IN  IF seq_num = w.base
        THEN [w EXCEPT !.acked_packets = acked,
                       !.base = NewBase(w.base, acked, w.next_seq_num),
                       !.window_size = GrowWindow(w.window_size)]
        ELSE [w EXCEPT !.acked_packets = acked]

\* faulty variant of OnAck: the window moves on every new acknowledgment,
\* whether it is for the base or not
OnAckAnySeq(w, ack_num) ==
    LET seq_num == ack_num - 1
    IN  IF seq_num \in w.acked_packets
        THEN w
        ELSE LET acked == w.acked_packets \cup {seq_num}
             IN  [w EXCEPT !.acked_packets = acked,
                           !.base = NewBase(w.base, acked, w.next_seq_num),
                           !.window_size = GrowWindow(w.window_size)]

\* receive_acks, the body under the lock, for message.get('ack_num') = ack_num
OnAck(w, ack_num) ==
    LET seq_num == ack_num - 1
    IN  IF seq_num \in w.acked_packets
        THEN w
        ELSE LET acked == w.acked_packets \cup {seq_num}
             IN  IF seq_num = w.base
                 THEN [w EXCEPT !.acked_packets = acked,
                                !.base = NewBase(w.base, acked, w.next_seq_num),
                                !.window_size = GrowWindow(w.window_size)]
                 ELSE [w EXCEPT !.acked_packets = acked]

SetWindow(w) ==
    /\ base' = w.base
    /\ window_size' = w.window_size
    /\ acked_packets' = w.acked_packets
    /\ next_seq_num' = w.next_seq_num

\* the condition of the admission loop of start()
AdmitLoopCond == total_sent < total_packets /\ running

\* faulty variant of CanAdmit: the window test is off by one
CanAdmitOff == next_seq_num <= base + window_size /\ next_seq_num < total_packets

\* faulty variant of CanAdmit: no test against total_packets
CanAdmitPastTotal == next_seq_num < base + window_size

\* the condition under the lock: the window is not full and packets remain
CanAdmit == next_seq_num < base + window_size /\ next_seq_num < total_packets

\* client_socket.send: TRUE when it returns, FALSE when it raises.  It
\* raises on the sender's closed socket; after the peer has closed it may do
\* either
SendOutcomes ==
    IF sock = "closed" THEN {FALSE}
    ELSE IF conn = "closed" THEN {TRUE, FALSE}
    ELSE {TRUE}

\* faulty variant of SendPacket: a packet that was sent is queued for
\* retransmission as well
SendPacketQueueAlways(seq_num, r) ==
    IF ShouldDrop(r)
    THEN /\ dropped_packets' = dropped_packets \cup {seq_num}
         /\ total_dropped' = total_dropped + 1
         /\ packets_to_retransmit' =
                Append(packets_to_retransmit, RetransmitEntry(seq_num))
         /\ UNCHANGED <<sent_packets, total_sent, c2s>>
    ELSE \E sent \in SendOutcomes :
           IF sent
           THEN /\ c2s' = Append(c2s, Announcement(seq_num))
                /\ sent_packets' = sent_packets \cup {seq_num}
                /\ total_sent' = total_sent + 1
                /\ packets_to_retransmit' =
                       Append(packets_to_retransmit, RetransmitEntry(seq_num))
                /\ UNCHANGED <<dropped_packets, total_dropped>>
           ELSE UNCHANGED <<sent_packets, total_sent, c2s, dropped_packets,
                            total_dropped, packets_to_retransmit>>

\* send_packet(seq_num), called with seq_num = next_seq_num before the increment
SendPacket(seq_num, r) ==
    IF ShouldDrop(r)
    THEN /\ dropped_packets' = dropped_packets \cup {seq_num}
         /\ total_dropped' = total_dropped + 1
         /\ packets_to_retransmit' =
                Append(packets_to_retransmit, RetransmitEntry(seq_num))
         /\ UNCHANGED <<sent_packets, total_sent, c2s>>
    ELSE \E sent \in SendOutcomes :
           IF sent
           THEN /\ c2s' = Append(c2s, Announcement(seq_num))
                /\ sent_packets' = sent_packets \cup {seq_num}
                /\ total_sent' = total_sent + 1
                /\ UNCHANGED <<dropped_packets, total_dropped,
                               packets_to_retransmit>>
           ELSE \* client_socket.send raises; the exception is logged
                UNCHANGED <<sent_packets, total_sent, c2s, dropped_packets,
                            total_dropped, packets_to_retransmit>>

\* connect(): the socket connects and the initiation token is sent
Connect ==
    /\ pcMain = "init"
    /\ conn = "none"
    /\ pcMain' = "connect"
    /\ conn' = "pending"
    /\ c2s' = Append(c2s, NetworkToken)
    /\ UNCHANGED <<config, window, tracking, running, pcAck, pcRetx,
                   sock, s2c, receiver, history>>

\* start(): connect() has read the response with "success" in it, the flag
\* is set and the two threads start
Start ==
    /\ pcMain = "connect"
    /\ s2c # << >>
    /\ Head(s2c) = SuccessToken
    /\ s2c' = Tail(s2c)
    /\ pcMain' = "admit"
    /\ pcAck' = "run"
    /\ pcRetx' = "run"
    /\ running' = TRUE
    /\ UNCHANGED <<config, window, tracking, sock, conn, c2s, receiver,
                   history>>

\* the admission loop of start(), the block under the lock
AdmitLocked ==
    /\ IF CanAdmit
       THEN /\ \E r \in RandomDraws : SendPacket(next_seq_num, r)
            /\ next_seq_num' = next_seq_num + 1
       ELSE UNCHANGED <<next_seq_num, tracking, c2s>>
    /\ UNCHANGED <<total_retransmitted, retransmission_counts>>

\* one iteration of the admission loop of start()
Admit ==
    /\ pcMain = "admit"
    /\ AdmitLoopCond
    /\ AdmitLocked
    /\ UNCHANGED <<config, window_size, base, acked_packets, threads,
                   sock, conn, s2c, receiver, history>>

\* the admission loop ends and start() goes on to wait for the acks
ExitAdmit ==
    /\ pcMain = "admit"
    /\ ~AdmitLoopCond
    /\ pcMain' = "wait"
    /\ UNCHANGED <<config, window, tracking, running, pcAck, pcRetx,
                   wire, receiver, history>>

\* while len(self.acked_packets) < self.total_packets and self.running
WaitLoopCond == Cardinality(acked_packets) < total_packets /\ running

\* one round of the wait loop: log and sleep
WaitAcks ==
    /\ pcMain = "wait"
    /\ WaitLoopCond
    /\ UNCHANGED vars

\* an iteration of a loop counted in after_stop
Counted(n) == IF running THEN n ELSE IF n < 2 THEN n + 1 ELSE n

\* finally: self.running = False.  A thread in its loop is at the test of
\* the flag, which ends the loop, or past it (or in recv) and then still
\* runs the iteration it is in: "last" stands for both
Shutdown ==
    /\ running' = FALSE
    /\ pcMain' = "closing"
    /\ pcAck' = (IF pcAck = "run" THEN "last" ELSE pcAck)
    /\ pcRetx' = (IF pcRetx = "run" THEN "last" ELSE pcRetx)

\* finally: self.client_socket.close(); start() has reached its end
CloseSocket ==
    /\ pcMain = "closing"
    /\ sock' = "closed"
    /\ pcMain' = "done"
    /\ UNCHANGED <<config, window, tracking, running, pcAck, pcRetx,
                   conn, c2s, s2c, receiver, history>>

\* the wait loop ends: "All packets sent and acknowledged", then finally
Finish ==
    /\ pcMain = "wait"
    /\ ~WaitLoopCond
    /\ Shutdown
    /\ UNCHANGED <<config, window, tracking, wire, receiver, history>>

\* KeyboardInterrupt in start(): the engine is stopped from outside
Interrupt ==
    /\ pcMain \in {"admit", "wait"}
    /\ Shutdown
    /\ UNCHANGED <<config, window, tracking, wire, receiver, history>>

\* while self.running, with recv on the open socket; or the iteration the
\* thread was in when the flag went down
AckLoopCond ==
    \/ pcAck = "run" /\ running /\ sock = "open"
    \/ pcAck = "last"

\* receive_acks: the message just read from the stream is handled.  Text
\* that is not JSON raises JSONDecodeError, which is logged; an object
\* without ack_num is skipped; on any other JSON value message.get raises,
\* which ends the loop
HandleAck(message) ==
    /\ AckLoopCond
    /\ IF message.field = "ack_num"
       THEN /\ SetWindow(OnAck(Window, message.value))
            /\ redelivered' =
                   (redelivered \/ (message.value - 1) \in acked_packets)
       ELSE UNCHANGED <<window, redelivered>>
    /\ pcAck' = IF message.field = "scalar" THEN "done" ELSE "run"
    /\ after_stop' = [after_stop EXCEPT !.ack = Counted(@)]
    /\ UNCHANGED <<config, tracking, running, pcMain, pcRetx, sock, conn, c2s,
                   receiver, announced>>

\* receive_acks: one message of the receiver is read and handled
ReceiveAck ==
    /\ s2c # << >>
    /\ HandleAck(Head(s2c))
    /\ s2c' = Tail(s2c)

\* receive_acks reads an acknowledgment of an arbitrary peer
ArbitraryAck ==
    \E a \in AckValues :
        /\ HandleAck([field |-> "ack_num", value |-> a])
        /\ UNCHANGED s2c

\* what an arbitrary peer may write instead of an acknowledgment: text that
\* is not JSON, a JSON object without ack_num, JSON that is not an object
MalformedAcks ==
    {[field |-> f, value |-> NoneSeq] : f \in {"text", "object", "scalar"}}

\* receive_acks reads a malformed payload of an arbitrary peer
MalformedAck ==
    \E message \in MalformedAcks :
        /\ HandleAck(message)
        /\ UNCHANGED s2c

\* receive_acks: recv returns no data after the peer closed, or raises;
\* the loop is left through break
AckEof ==
    /\ pcAck \in {"run", "last"}
    /\ sock = "open"
    /\ s2c = << >>
    /\ conn = "closed"
    /\ pcAck' = "done"
    /\ UNCHANGED <<config, window, tracking, running, pcMain, pcRetx,
                   wire, receiver, history>>

\* receive_acks leaves its loop: the flag is down or recv fails on the
\* closed socket
AckExit ==
    /\ pcAck \in {"run", "last"}
    /\ (~running \/ sock = "closed")
    /\ pcAck' = "done"
    /\ UNCHANGED <<config, window, tracking, running, pcMain, pcRetx,
                   wire, receiver, history>>

\* faulty variant of HeadDue: the due point is not looked at
HeadDueAtOnce == packets_to_retransmit # << >>

\* the head of the queue is there and due
HeadDue ==
    /\ packets_to_retransmit # << >>
    /\ Head(packets_to_retransmit).due <= next_seq_num

\* faulty variant of RetxLoopCond: while True
RetxLoopCondNoFlag == pcRetx \in {"run", "last"}

\* while self.running; or the iteration the thread was in when the flag
\* went down
RetxLoopCond ==
    \/ pcRetx = "run" /\ running
    \/ pcRetx = "last"

\* faulty variant of AlreadyAcked: the acked set is not consulted
AlreadyAckedNever(seq_num) == FALSE

\* handle_retransmissions: the test "seq_num not in self.acked_packets",
\* negated
AlreadyAcked(seq_num) == seq_num \in acked_packets

\* handle_retransmissions, the block under the lock
RetransmitLocked ==
    /\ IF HeadDue
       THEN LET seq_num == Head(packets_to_retransmit).seq
                rest == Tail(packets_to_retransmit)
            IN  IF ~AlreadyAcked(seq_num)
                THEN \E r \in RandomDraws, sent \in SendOutcomes :
                       IF ShouldDrop(r)
                       THEN /\ packets_to_retransmit' =
                                   Append(rest, RetransmitEntry(seq_num))
                            /\ UNCHANGED <<c2s, total_retransmitted,
                                           retransmission_counts>>
                       ELSE IF sent
                       THEN /\ packets_to_retransmit' = rest
                            /\ c2s' = Append(c2s, Announcement(seq_num))
                            /\ total_retransmitted' = total_retransmitted + 1
                            /\ retransmission_counts' =
                                   [retransmission_counts EXCEPT
                                        ![seq_num] = @ + 1]
                       ELSE \* send raises after the popleft
                            /\ packets_to_retransmit' = rest
                            /\ UNCHANGED <<c2s, total_retransmitted,
                                           retransmission_counts>>
                ELSE /\ packets_to_retransmit' = rest
                     /\ UNCHANGED <<c2s, total_retransmitted,
                                    retransmission_counts>>
       ELSE UNCHANGED <<packets_to_retransmit, c2s, total_retransmitted,
                        retransmission_counts>>
    /\ UNCHANGED <<sent_packets, dropped_packets, total_sent, total_dropped>>

\* handle_retransmissions: one iteration of its loop
Retransmit ==
    /\ RetxLoopCond
    /\ RetransmitLocked
    /\ pcRetx' = "run"
    /\ after_stop' = [after_stop EXCEPT !.retx = Counted(@)]
    /\ UNCHANGED <<config, window, running, pcMain, pcAck, sock, conn, s2c,
                   receiver, redelivered, announced>>

\* handle_retransmissions leaves its loop
RetxExit ==
    /\ pcRetx \in {"run", "last"}
    /\ ~running
    /\ pcRetx' = "done"
    /\ UNCHANGED <<config, window, tracking, running, pcMain, pcAck,
                   wire, receiver, history>>

\* ------------------------------------------------------------- receiver
\* faulty variant of NewlyMissing: the scan includes seq_num itself
NewlyMissingInclusive(seq_num) ==
    {i \in (highest_seq_received + 1)..seq_num :
        i \notin received_packets /\ i \notin missing_packets}

\* for i in range(highest + 1, seq_num): if i not in received and not in missing
NewlyMissing(seq_num) ==
    {i \in (highest_seq_received + 1)..(seq_num - 1) :
        i \notin received_packets /\ i \notin missing_packets}

\* faulty variant of CountRetransmission: a duplicate is noted, not counted
CountRetransmissionOnce(stats, seq_num) == stats @@ (seq_num :> 1)

\* self.retransmission_stats[seq_num] += 1 on a defaultdict(int)
CountRetransmission(stats, seq_num) ==
    IF seq_num \in DOMAIN stats
    THEN [stats EXCEPT ![seq_num] = @ + 1]
    ELSE stats @@ (seq_num :> 1)

\* "seq_num > self.highest_seq_received" raises TypeError for None, which
\* ends process_sequence_number after the counts and the set were updated
ComparisonRaises(seq_num) ==
    seq_num = NoneSeq /\ seq_num \notin received_packets

\* faulty variant of ProcessSequenceNumber: a number that arrives is
\* taken out of missing_packets
ProcessSequenceNumberClearing(seq_num) ==
    /\ total_packets_expected' = total_packets_expected + 1
    /\ IF seq_num \in received_packets
       THEN /\ retransmission_stats' =
                   CountRetransmission(retransmission_stats, seq_num)
            /\ UNCHANGED <<total_packets_received, received_packets,
                           missing_packets, highest_seq_received>>
       ELSE /\ total_packets_received' = total_packets_received + 1
            /\ received_packets' = received_packets \cup {seq_num}
            /\ IF ~ComparisonRaises(seq_num)
                  /\ seq_num > highest_seq_received
               THEN /\ missing_packets' =
                           missing_packets \cup NewlyMissing(seq_num)
                    /\ highest_seq_received' = seq_num
               ELSE /\ missing_packets' = missing_packets \ {seq_num}
                    /\ UNCHANGED highest_seq_received
            /\ UNCHANGED retransmission_stats

\* process_sequence_number(seq_num)
ProcessSequenceNumber(seq_num) ==
    /\ total_packets_expected' = total_packets_expected + 1
    /\ IF seq_num \in received_packets
       THEN /\ retransmission_stats' =
                   CountRetransmission(retransmission_stats, seq_num)
            /\ UNCHANGED <<total_packets_received, received_packets,
                           missing_packets, highest_seq_received>>
       ELSE /\ total_packets_received' = total_packets_received + 1
            /\ received_packets' = received_packets \cup {seq_num}
            /\ IF ~ComparisonRaises(seq_num)
                  /\ seq_num > highest_seq_received
               THEN /\ missing_packets' =
                           missing_packets \cup NewlyMissing(seq_num)
                    /\ highest_seq_received' = seq_num
               ELSE UNCHANGED <<missing_packets, highest_seq_received>>
            /\ UNCHANGED retransmission_stats

\* a goodput value, kept as the fraction the division is applied to
Fraction(num, den) == [num |-> num, den |-> den]

\* faulty variant of Goodput: the denominator is the number of sequence
\* numbers up to the highest one seen
GoodputOfHighest(received, expected) ==
    Fraction(Cardinality(received), highest_seq_received + 1)

\* len(self.received_packets) / self.total_packets_expected
Goodput(received, expected) == Fraction(Cardinality(received), expected)

\* if self.total_packets_received % 1000 == 0 and self.total_packets_received > 0
SampleDue(received_count) ==
    received_count % GoodputPeriod = 0 /\ received_count > 0

\* start(): accept() returns and handle_client starts; its first statement
\* sends the success token
ServerAccept ==
    /\ conn = "pending"
    /\ conn' = "active"
    /\ s2c' = Append(s2c, SuccessToken)
    /\ UNCHANGED <<config, sender, sock, c2s, receiver, history>>

\* handle_client: one payload is read; an announcement is processed and
\* acknowledged
ServerReceive ==
    /\ conn = "active"
    /\ c2s # << >>
    /\ LET payload == Head(c2s)
           seq_num == payload.seq_num
       IN  IF payload.kind = "object"
           THEN /\ ProcessSequenceNumber(seq_num)
                /\ announced' = Append(announced, seq_num)
                /\ goodput_measurements' =
                       IF ~ComparisonRaises(seq_num)
                          /\ SampleDue(total_packets_received')
                       THEN Append(goodput_measurements,
                                   Goodput(received_packets',
                                           total_packets_expected'))
                       ELSE goodput_measurements
                /\ s2c' = IF seq_num # NoneSeq  \* None + 1 raises TypeError
                          THEN Append(s2c, AckMessage(seq_num))
                          ELSE s2c
                /\ UNCHANGED final_statistics
           ELSE \* json.loads or message.get raises; the error is logged
                UNCHANGED <<receiver, announced, s2c>>
    /\ c2s' = Tail(c2s)
    /\ UNCHANGED <<config, sender, sock, conn, redelivered, after_stop>>

\* faulty variant of CalculateFinalStatistics: the division is not guarded
CalculateFinalStatisticsUnguarded ==
    final_statistics' =
        Append(final_statistics,
               [available |-> TRUE,
                goodput |-> Goodput(received_packets, total_packets_expected)])

\* calculate_final_statistics(): the goodput it logs, or the warning that
\* nothing was processed
CalculateFinalStatistics ==
    final_statistics' =
        Append(final_statistics,
               IF total_packets_expected = 0
               THEN [available |-> FALSE, goodput |-> Fraction(0, 0)]
               ELSE [available |-> TRUE,
                     goodput |-> Goodput(received_packets,
                                         total_packets_expected)])

\* handle_client: recv returns no data after the peer closed; the loop ends
\* and finally closes the socket and calculates the final statistics
ServerClose ==
    /\ conn = "active"
    /\ c2s = << >>
    /\ sock = "closed"
    /\ conn' = "closed"
    /\ CalculateFinalStatistics
    /\ UNCHANGED <<received_packets, missing_packets, highest_seq_received,
                   total_packets_received, total_packets_expected,
                   retransmission_stats, goodput_measurements>>
    /\ UNCHANGED <<config, sender, sock, c2s, s2c, history>>

\* ------------------------------------------- receiver of server_fixed.py
\* faulty variant of FixedAckMessage: the convention of server.py
FixedAckMessageAckNum(seq_num) == [field |-> "ack_num", value |-> seq_num + 1]

\* json.dumps({'ack': seq_num}) of server_fixed.py
FixedAckMessage(seq_num) == [field |-> "ack", value |-> seq_num]

\* for i in range(self.highest_seq_num + 1, seq_num): if i not in received
FixedNewlyMissing(seq_num) ==
    {i \in (highest_seq_received + 1)..(seq_num - 1) :
        i \notin received_packets}

\* process_sequence_number(seq_num) of server_fixed.py; highest_seq_num is
\* kept in highest_seq_received
FixedProcessSequenceNumber(seq_num) ==
    IF seq_num = NoneSeq
    THEN UNCHANGED <<received_packets, total_packets_received,
                     total_packets_expected, missing_packets,
                     highest_seq_received>>
    ELSE /\ received_packets' = received_packets \cup {seq_num}
         /\ total_packets_received' = total_packets_received + 1
         /\ IF seq_num > highest_seq_received
            THEN /\ total_packets_expected' = seq_num + 1
                 /\ missing_packets' =
                        missing_packets \cup FixedNewlyMissing(seq_num)
                 /\ highest_seq_received' = seq_num
            ELSE UNCHANGED <<total_packets_expected, missing_packets,
                             highest_seq_received>>

\* handle_client of server_fixed.py: the initial message is read, whatever
\* it is, and the success token is sent
FixedServerAccept ==
    /\ conn = "pending"
    /\ c2s # << >>
    /\ c2s' = Tail(c2s)
    /\ conn' = "active"
    /\ s2c' = Append(s2c, SuccessToken)
    /\ UNCHANGED <<config, sender, sock, receiver, history>>

\* handle_client of server_fixed.py: one payload is read; an announcement
\* is processed and answered with {'ack': seq_num}.  A division by zero in
\* the sample is caught like any other exception, before the answer
FixedServerReceive ==
    /\ conn = "active"
    /\ c2s # << >>
    /\ LET payload == Head(c2s)
           seq_num == payload.seq_num
       IN  IF payload.kind = "object"
           THEN /\ FixedProcessSequenceNumber(seq_num)
                /\ announced' = Append(announced, seq_num)
                /\ IF SampleDue(total_packets_received')
                   THEN IF total_packets_expected' = 0
                        THEN UNCHANGED <<goodput_measurements, s2c>>
                        ELSE /\ goodput_measurements' =
                                    Append(goodput_measurements,
                                           Goodput(received_packets',
                                                   total_packets_expected'))
                             /\ s2c' = Append(s2c, FixedAckMessage(seq_num))
                   ELSE /\ s2c' = Append(s2c, FixedAckMessage(seq_num))
                        /\ UNCHANGED goodput_measurements
                /\ UNCHANGED <<retransmission_stats, final_statistics>>
           ELSE \* json.loads or message.get raises; the error is logged
                UNCHANGED <<receiver, announced, s2c>>
    /\ c2s' = Tail(c2s)
    /\ UNCHANGED <<config, sender, sock, conn, redelivered, after_stop>>

\* calculate_final_statistics() of server_fixed.py: it logs the final
\* goodput, or returns at once when nothing was expected
FixedCalculateFinalStatistics ==
    final_statistics' =
        IF total_packets_expected = 0
        THEN final_statistics
        ELSE Append(final_statistics,
                    [available |-> TRUE,
                     goodput |-> Goodput(received_packets,
                                         total_packets_expected)])

\* handle_client of server_fixed.py: recv returns no data after the peer
\* closed; the loop ends, the final statistics are calculated and the
\* socket is closed
FixedServerClose ==
    /\ conn = "active"
    /\ c2s = << >>
    /\ sock = "closed"
    /\ conn' = "closed"
    /\ FixedCalculateFinalStatistics
    /\ UNCHANGED <<received_packets, missing_packets, highest_seq_received,
                   total_packets_received, total_packets_expected,
                   retransmission_stats, goodput_measurements>>
    /\ UNCHANGED <<config, sender, sock, c2s, s2c, history>>

\* ---------------------------------------------------------------- specs
InitSender ==
    /\ window_size = initial_window
    /\ base = 0
    /\ next_seq_num = 0
    /\ sent_packets = {}
    /\ acked_packets = {}
    /\ dropped_packets = {}
    /\ packets_to_retransmit = << >>
    /\ total_sent = 0
    /\ total_dropped = 0
    /\ total_retransmitted = 0
    /\ retransmission_counts = [s \in SeqNums |-> 0]
    /\ running = FALSE
    /\ pcMain = "init"
    /\ pcAck = "idle"
    /\ pcRetx = "idle"

InitWire ==
    /\ sock = "open"
    /\ conn = "none"
    /\ c2s = << >>
    /\ s2c = << >>

InitReceiver ==
    /\ received_packets = {}
    /\ missing_packets = {}
    /\ highest_seq_received = -1
    /\ total_packets_received = 0
    /\ total_packets_expected = 0
    /\ retransmission_stats = [s \in {} |-> 0]
    /\ goodput_measurements = << >>
    /\ final_statistics = << >>

InitHistory ==
    /\ redelivered = FALSE
    /\ announced = << >>
    /\ after_stop = [ack |-> 0, retx |-> 0]

Init ==
    /\ drop_probability \in DropProbabilities
    /\ retransmit_after \in 0..MaxRetransmitAfter
    /\ total_packets \in 1..MaxPackets
    /\ initial_window \in WindowSizes
    /\ InitSender
    /\ InitWire
    /\ InitReceiver
    /\ InitHistory

Next ==
    \/ Connect
    \/ Start
    \/ Admit
    \/ ExitAdmit
    \/ WaitAcks
    \/ Finish
    \/ CloseSocket
    \/ Interrupt
    \/ ReceiveAck
    \/ AckExit
    \/ Retransmit
    \/ RetxExit
    \/ ServerAccept
    \/ ServerReceive
    \/ ServerClose

Spec == Init /\ [][Next]_vars

\* an arbitrary peer reads an announcement off the stream
PeerRead ==
    /\ c2s # << >>
    /\ c2s' = Tail(c2s)
    /\ UNCHANGED <<config, sender, sock, conn, s2c, receiver, history>>

\* the sender against a peer that may acknowledge anything, in any order,
\* and that leaves what the sender writes unread
NextAnyAck ==
    \/ Connect
    \/ Start
    \/ Admit
    \/ ExitAdmit
    \/ WaitAcks
    \/ Finish
    \/ CloseSocket
    \/ ArbitraryAck
    \/ AckExit
    \/ Retransmit
    \/ RetxExit
    \/ ServerAccept

InitAnyAck == Init /\ total_packets <= MaxAnyAckPackets

SpecAnyAck == InitAnyAck /\ [][NextAnyAck]_vars

\* the engine is not stopped from outside, the threads and the receiver are
\* scheduled fairly, and a loss draw that is repeated eventually succeeds
NextRun ==
    \/ Connect
    \/ Start
    \/ Admit
    \/ ExitAdmit
    \/ WaitAcks
    \/ Finish
    \/ CloseSocket
    \/ ReceiveAck
    \/ AckExit
    \/ Retransmit
    \/ RetxExit
    \/ ServerAccept
    \/ ServerReceive
    \/ ServerClose

\* a retransmission whose loss draw succeeds
RetransmitDelivered ==
    Retransmit /\ total_retransmitted' = total_retransmitted + 1

Fairness ==
    /\ WF_vars(Connect)
    /\ WF_vars(Start)
    /\ WF_vars(Admit)
    /\ WF_vars(ExitAdmit)
    /\ WF_vars(Finish)
    /\ WF_vars(CloseSocket)
    /\ WF_vars(ReceiveAck)
    /\ WF_vars(AckExit)
    /\ WF_vars(Retransmit)
    /\ SF_vars(RetransmitDelivered)
    /\ WF_vars(RetxExit)
    /\ WF_vars(ServerAccept)
    /\ WF_vars(ServerReceive)
    /\ WF_vars(ServerClose)

InitFair == Init /\ drop_probability < 100

SpecFair == InitFair /\ [][NextRun]_vars /\ Fairness

\* the scenario of a loss-free run: drop probability 0, window 4, 10 packets
Scenario == [drop_probability |-> 0, window_size |-> 4, total_packets |-> 10]

InitScenario ==
    /\ drop_probability = Scenario.drop_probability
    /\ initial_window = Scenario.window_size
    /\ total_packets = Scenario.total_packets
    /\ retransmit_after \in 0..MaxRetransmitAfter
    /\ InitSender
    /\ InitWire
    /\ InitReceiver
    /\ InitHistory

SpecScenario == InitScenario /\ [][NextRun]_vars /\ Fairness

\* the scenario of a single loss: the loss draw of the initial emit of
\* sequence number 3 drops it, every other draw delivers; the delay is 2
DropThree == [seq_num |-> 3, retransmit_after |-> 2]

\* an admission step whose loss draw follows the scenario
AdmitDropThree ==
    /\ Admit
    /\ next_seq_num' # next_seq_num =>
           (next_seq_num \in dropped_packets' <=>
                next_seq_num = DropThree.seq_num)

\* a retransmission step whose loss draw, if there is one, delivers
RetransmitDropThree ==
    /\ Retransmit
    /\ \/ packets_to_retransmit' = packets_to_retransmit
       \/ Len(packets_to_retransmit') < Len(packets_to_retransmit)

NextDropThree ==
    \/ Connect
    \/ Start
    \/ AdmitDropThree
    \/ ExitAdmit
    \/ WaitAcks
    \/ Finish
    \/ CloseSocket
    \/ ReceiveAck
    \/ AckExit
    \/ RetransmitDropThree
    \/ RetxExit
    \/ ServerAccept
    \/ ServerReceive
    \/ ServerClose

FairnessDropThree ==
    /\ WF_vars(Connect)
    /\ WF_vars(Start)
    /\ WF_vars(AdmitDropThree)
    /\ WF_vars(ExitAdmit)
    /\ WF_vars(Finish)
    /\ WF_vars(CloseSocket)
    /\ WF_vars(ReceiveAck)
    /\ WF_vars(AckExit)
    /\ WF_vars(RetransmitDropThree)
    /\ WF_vars(RetxExit)
    /\ WF_vars(ServerAccept)
    /\ WF_vars(ServerReceive)
    /\ WF_vars(ServerClose)

InitDropThree ==
    /\ drop_probability \in DropProbabilities
    /\ 0 < drop_probability
    /\ drop_probability < 100
    /\ retransmit_after = DropThree.retransmit_after
    /\ total_packets \in 1..MaxDropThreePackets
    /\ initial_window \in WindowSizes
    /\ InitSender
    /\ InitWire
    /\ InitReceiver
    /\ InitHistory

SpecDropThree == InitDropThree /\ [][NextDropThree]_vars /\ FairnessDropThree

\* ------------------------------------------- the receiver and any peer
\* the sequence numbers an arbitrary peer announces: the highest one the
\* receiver has seen, the one before it, and up to MaxPeerGap beyond it
PeerSeqNums ==
    {q \in (highest_seq_received - 1)..
           (highest_seq_received + MaxPeerGap) : q >= 0}

\* what an arbitrary peer may write: text that is not JSON, a JSON object
\* without seq_num, JSON that is not an object, or an announcement
Payloads ==
    {[kind |-> k, seq_num |-> NoneSeq] : k \in {"text", "object", "scalar"}}
        \cup {Announcement(q) : q \in PeerSeqNums}

\* the number of announcements the receiver had processed in Init
AnnouncedAtStart == IF Len(announced) < Warmup THEN 0 ELSE Warmup

\* a peer connects to the listening receiver
PeerConnect ==
    /\ conn = "none"
    /\ conn' = "pending"
    /\ UNCHANGED <<config, sender, sock, c2s, s2c, receiver, history>>

\* after a connection was closed the next peer connects, on a new stream
PeerReconnect ==
    /\ conn = "closed"
    /\ Len(final_statistics) < MaxConnections
    /\ conn' = "pending"
    /\ sock' = "open"
    /\ c2s' = << >>
    /\ s2c' = << >>
    /\ UNCHANGED <<config, sender, receiver, history>>

\* the peer writes a payload once the receiver has read the one before
PeerSend ==
    /\ conn \in {"pending", "active"}
    /\ sock = "open"
    /\ c2s = << >>
    /\ Len(announced) < AnnouncedAtStart + MaxAnnounced
    /\ \E payload \in Payloads : c2s' = Append(c2s, payload)
    /\ UNCHANGED <<config, sender, sock, conn, s2c, receiver, history>>

\* the peer closes its socket
PeerClose ==
    /\ conn \in {"pending", "active"}
    /\ sock = "open"
    /\ sock' = "closed"
    /\ UNCHANGED <<config, sender, conn, c2s, s2c, receiver, history>>

NextReceiver ==
    \/ PeerConnect
    \/ PeerSend
    \/ PeerClose
    \/ ServerAccept
    \/ ServerReceive
    \/ ServerClose

\* the receiver after the announcements 0 .. n-1 have arrived in order
InitReceiverAfter(n) ==
    /\ received_packets = 0..(n - 1)
    /\ missing_packets = {}
    /\ highest_seq_received = n - 1
    /\ total_packets_received = n
    /\ total_packets_expected = n
    /\ retransmission_stats = [q \in {} |-> 0]
    /\ goodput_measurements = << >>
    /\ final_statistics = << >>
    /\ announced = [i \in 1..n |-> i - 1]
    /\ conn = IF n = 0 THEN "none" ELSE "active"
    /\ s2c = << >>

\* a new receiver, or one that is Warmup announcements into its first
\* connection, shortly before the first goodput sample
InitAnyPeer ==
    /\ drop_probability = 0
    /\ retransmit_after = 0
    /\ total_packets = 1
    /\ initial_window = 1
    /\ InitSender
    /\ sock = "open"
    /\ c2s = << >>
    /\ redelivered = FALSE
    /\ after_stop = [ack |-> 0, retx |-> 0]
    /\ \E n \in {0, Warmup} : InitReceiverAfter(n)

SpecReceiver == InitAnyPeer /\ [][NextReceiver]_vars

\* a new receiver and peers that connect one after another
NextReconnect ==
    \/ PeerConnect
    \/ PeerReconnect
    \/ PeerSend
    \/ PeerClose
    \/ ServerAccept
    \/ ServerReceive
    \/ ServerClose

InitReconnect == InitAnyPeer /\ announced = << >>

SpecReconnect == InitReconnect /\ [][NextReconnect]_vars

\* ----------------------------------- the sender and a peer that may fail
\* the peer closes the connection, or is gone
PeerHangup ==
    /\ conn = "active"
    /\ conn' = "closed"
    /\ UNCHANGED <<config, sender, sock, c2s, s2c, receiver, history>>

\* the sender against a peer that may acknowledge anything, write anything
\* and close the connection at any time
NextPeerFaults ==
    \/ Connect
    \/ Start
    \/ Admit
    \/ ExitAdmit
    \/ WaitAcks
    \/ Finish
    \/ CloseSocket
    \/ ArbitraryAck
    \/ MalformedAck
    \/ AckEof
    \/ AckExit
    \/ Retransmit
    \/ RetxExit
    \/ ServerAccept
    \/ PeerRead
    \/ PeerHangup

\* the threads of the sender are scheduled fairly; the peer is not bound to
\* anything
FairnessPeerFaults ==
    /\ WF_vars(Connect)
    /\ WF_vars(Start)
    /\ WF_vars(Admit)
    /\ WF_vars(ExitAdmit)
    /\ WF_vars(Finish)
    /\ WF_vars(CloseSocket)
    /\ WF_vars(AckEof)
    /\ WF_vars(AckExit)
    /\ WF_vars(Retransmit)
    /\ WF_vars(RetxExit)

\* the window opens at least one slot, so that the sender has packets out
\* when the peer misbehaves
InitPeerFaults == InitAnyAck /\ initial_window > 0

SpecPeerFaults == InitPeerFaults /\ [][NextPeerFaults]_vars /\ FairnessPeerFaults

\* the engine may be stopped from outside at any time; the threads and the
\* receiver are scheduled fairly. The window starts small, so that packets
\* are still waiting when the flag goes down.
InitStop == Init /\ initial_window \in 1..MaxSmallWindow /\ retransmit_after <= 1

SpecStop == InitStop /\ [][Next]_vars /\ Fairness

\* the sender of client.py against the receiver of server_fixed.py.  The
\* wait loop of start() is left only by an interrupt here
NextFixed ==
    \/ Connect
    \/ Start
    \/ Admit
    \/ ExitAdmit
    \/ WaitAcks
    \/ Interrupt
    \/ CloseSocket
    \/ ReceiveAck
    \/ AckExit
    \/ Retransmit
    \/ RetxExit
    \/ FixedServerAccept
    \/ FixedServerReceive
    \/ FixedServerClose

SpecFixed == Init /\ [][NextFixed]_vars

\* ------------------------------------------- the sender, lock by lock
\* the threads that are inside "with self.lock"
LockedBy ==
    (IF pcMain = "admit_locked" THEN {"main"} ELSE {})
        \cup (IF pcAck = "locked" THEN {"ack"} ELSE {})
        \cup (IF pcRetx = "locked" THEN {"retx"} ELSE {})

\* start(): the condition of the admission loop is evaluated, before the
\* lock is asked for
AdmitTest ==
    /\ pcMain = "admit"
    /\ AdmitLoopCond
    /\ pcMain' = "admit_wait"
    /\ UNCHANGED <<config, window, tracking, running, pcAck, pcRetx,
                   wire, receiver, history>>

\* start(): with self.lock is entered
AdmitAcquire ==
    /\ pcMain = "admit_wait"
    /\ LockedBy = {}
    /\ pcMain' = "admit_locked"
    /\ UNCHANGED <<config, window, tracking, running, pcAck, pcRetx,
                   wire, receiver, history>>

\* start(): the block under the lock, and the lock is released
AdmitUnderLock ==
    /\ pcMain = "admit_locked"
    /\ AdmitLocked
    /\ pcMain' = "admit"
    /\ UNCHANGED <<config, window_size, base, acked_packets, running, pcAck,
                   pcRetx, sock, conn, s2c, receiver, history>>

\* receive_acks: recv has returned an acknowledgment, it is parsed and
\* with self.lock is entered
AckAcquire ==
    /\ AckLoopCond
    /\ s2c # << >>
    /\ Head(s2c).field = "ack_num"
    /\ LockedBy = {}
    /\ pcAck' = "locked"
    /\ after_stop' = [after_stop EXCEPT !.ack = Counted(@)]
    /\ UNCHANGED <<config, window, tracking, running, pcMain, pcRetx,
                   wire, receiver, redelivered, announced>>

\* receive_acks: the block under the lock, and the lock is released
AckUnderLock ==
    /\ pcAck = "locked"
    /\ SetWindow(OnAck(Window, Head(s2c).value))
    /\ redelivered' = (redelivered \/ (Head(s2c).value - 1) \in acked_packets)
    /\ s2c' = Tail(s2c)
    /\ pcAck' = "run"
    /\ UNCHANGED <<config, tracking, running, pcMain, pcRetx, sock, conn, c2s,
                   receiver, announced, after_stop>>

\* handle_retransmissions: with self.lock is entered
RetxAcquire ==
    /\ RetxLoopCond
    /\ LockedBy = {}
    /\ pcRetx' = "locked"
    /\ after_stop' = [after_stop EXCEPT !.retx = Counted(@)]
    /\ UNCHANGED <<config, window, tracking, running, pcMain, pcAck,
                   wire, receiver, redelivered, announced>>

\* handle_retransmissions: the block under the lock, and the lock is
\* released
RetxUnderLock ==
    /\ pcRetx = "locked"
    /\ RetransmitLocked
    /\ pcRetx' = "run"
    /\ UNCHANGED <<config, window, running, pcMain, pcAck, sock, conn, s2c,
                   receiver, history>>

\* client.py with server.py, every acquisition of the lock a step of its own
NextLock ==
    \/ Connect
    \/ Start
    \/ AdmitTest
    \/ AdmitAcquire
    \/ AdmitUnderLock
    \/ ExitAdmit
    \/ WaitAcks
    \/ Finish
    \/ CloseSocket
    \/ AckAcquire
    \/ AckUnderLock
    \/ AckExit
    \/ RetxAcquire
    \/ RetxUnderLock
    \/ RetxExit
    \/ ServerAccept
    \/ ServerReceive
    \/ ServerClose

InitLock ==
    /\ Init
    /\ total_packets <= 2
    /\ initial_window \in 1..MaxSmallWindow
    /\ retransmit_after <= 1

SpecLock == InitLock /\ [][NextLock]_vars

\* ---------------------------------------------------------------- claims
\* the sequence numbers the sender has put on the wire: by the initial emit
\* or by a successful retransmission
OnWire ==
    sent_packets \cup {q \in SeqNums : retransmission_counts[q] > 0}

\* C1: in every reachable state of the sender, under any interleaving of its
\* three tasks, base <= next_seq_num and the in-flight count
\* next_seq_num - base is at most window_size.
C1_WindowInvariant ==
    /\ base <= next_seq_num
    /\ next_seq_num - base <= window_size

\* C1 witness: the window is full with two packets in flight and
\* unacknowledged, after the base has already advanced
C1_Witness ==
    /\ base > 0
    /\ next_seq_num - base = window_size
    /\ window_size >= 2

\* C2: for every sequence of acknowledgments (any order, duplicates,
\* acknowledgments of sequence numbers never admitted) base never decreases
\* from one state to the next and never exceeds next_seq_num.
C2_BaseMonotonic ==
    /\ [][base' >= base]_vars
    /\ [](base <= next_seq_num)

\* C2 witness: the base has advanced, and an acknowledgment of a sequence
\* number that was never admitted has been handled
C2_Witness ==
    /\ base > 0
    /\ \E q \in acked_packets : q >= next_seq_num

\* C3: window_size never decreases across any step and never exceeds the
\* maximum window size (100), for every initial window size of the
\* configuration.
C3_WindowSizeBounded ==
    /\ [][window_size' >= window_size]_vars
    /\ [](window_size <= MaxWindow)

\* C4: handling the same acknowledgment twice leaves the sender as handling
\* it once: applied twice in a row the handler gives the result of applying
\* it once; a step that handles an acknowledgment of a sequence number
\* already in acked_packets changes nothing of the sender; and a sequence
\* number never leaves acked_packets, so this also holds for a later
\* redelivery.
C4_AckIdempotent ==
    /\ [](\A a \in AckValues :
             OnAck(OnAck(Window, a), a) = OnAck(Window, a))
    /\ [][\A a \in AckValues :
             (HandleAck([field |-> "ack_num", value |-> a])
                 /\ (a - 1) \in acked_packets)
             => UNCHANGED <<window, tracking, running>>]_vars
    /\ [][acked_packets \subseteq acked_packets']_vars

\* C4 witness: an acknowledgment of an already acknowledged sequence number
\* has been handled, at the base of a window that could still grow
C4_Witness ==
    /\ redelivered
    /\ base \in acked_packets
    /\ window_size < MaxWindow

\* C5: a packet is emitted only when next_seq_num < base + window_size and
\* next_seq_num < total_packets; the sequence numbers go through the initial
\* emit in the order 0, 1, 2, ..., each at most once, and next_seq_num never
\* exceeds total_packets.
C5_AdmissionInOrder ==
    /\ [](next_seq_num <= total_packets)
    /\ [](sent_packets \cup dropped_packets = 0..(next_seq_num - 1))
    /\ [](total_sent + total_dropped = next_seq_num)
    /\ [][(\/ next_seq_num' # next_seq_num
           \/ sent_packets' # sent_packets
           \/ dropped_packets' # dropped_packets)
          => /\ next_seq_num < base + window_size
             /\ next_seq_num < total_packets
             /\ next_seq_num' = next_seq_num + 1
             /\ next_seq_num \notin (sent_packets \cup dropped_packets)
             /\ sent_packets' \cup dropped_packets' =
                    sent_packets \cup dropped_packets \cup {next_seq_num}]_vars

\* C5 witness: all packets of a run of three went through the initial emit,
\* some sent and some dropped
C5_Witness ==
    /\ next_seq_num = total_packets
    /\ total_packets >= 3
    /\ sent_packets # {}
    /\ dropped_packets # {}

\* C6: every sequence number the initial emit marks Dropped is eventually
\* retransmitted and eventually marked Acked, when the engine is not stopped,
\* the tasks are scheduled fairly, a repeated loss draw eventually succeeds
\* and the receiver acknowledges every announcement.
C6_DroppedEventuallyAcked ==
    \A q \in 0..(MaxPackets - 1) :
        (q \in dropped_packets)
            ~> (q \in OnWire /\ q \in acked_packets)

\* C7: start() leaves its admission loop once total_packets sequence numbers
\* have been admitted, Sent or Dropped: when next_seq_num = total_packets the
\* condition of the admission loop is false.
C7_LeavesAdmissionLoop ==
    next_seq_num = total_packets => ~AdmitLoopCond

\* C8: every member of acked_packets was put on the wire before and is in
\* the receiver's received_packets; a Dropped sequence number that has not
\* been retransmitted successfully is not in acked_packets.
C8_AckedOnlyAfterReceipt ==
    /\ acked_packets \subseteq OnWire
    /\ acked_packets \subseteq received_packets
    /\ \A q \in dropped_packets :
           retransmission_counts[q] = 0 => q \notin acked_packets

\* C8 witness: a retransmitted sequence number is Acked while another
\* Dropped one is still waiting in the retransmit queue
C8_Witness ==
    /\ \E q \in dropped_packets : q \in acked_packets
    /\ \E q \in dropped_packets : retransmission_counts[q] = 0

\* C9: whenever the receiver emits an acknowledgment carrying a, every
\* sequence number below a has been received by the receiver at that time.
C9_AckIsCumulative ==
    [][Len(s2c') > Len(s2c)
       => \A i \in 0..(s2c'[Len(s2c')].value - 1) : i \in received_packets']_vars

\* C10: with drop probability 0, window 4 and 10 packets, against a receiver
\* that acknowledges every announcement, the sender eventually has all 10
\* sequence numbers Acked and then terminates; total_retransmitted and
\* total_dropped are 0 and the retransmit queue is empty throughout.
C10_LossFreeRun ==
    /\ <>(acked_packets = 0..(total_packets - 1) /\ pcMain = "done")
    /\ [](pcMain = "done" => acked_packets = 0..(total_packets - 1))
    /\ [](/\ total_retransmitted = 0
          /\ total_dropped = 0
          /\ packets_to_retransmit = << >>)

\* C10 witness: the run has terminated with all 10 sequence numbers Acked
C10_Witness ==
    /\ pcMain = "done"
    /\ Cardinality(acked_packets) = 10
    /\ total_sent = 10

\* C11 as stated: with drop probability 0, window 4 and 10 packets the
\* window_size of the terminal engine equals the initial size.
C11_FinalWindowIsInitial ==
    pcMain = "done" => window_size = initial_window

\* C11 as amended: the window grows by one with every acknowledgment that
\* advances base, drops or no drops; the terminal window_size is the
\* initial size plus the 10 acknowledged packets, 14.
C11_FinalWindowGrown ==
    /\ pcMain = "done" => window_size = initial_window + total_packets
    /\ window_size = initial_window + base

\* C11 witness: the engine is terminal after all 10 acknowledgments
C11_Witness ==
    /\ pcMain = "done"
    /\ base = 10
    /\ window_size = 14

\* C12: when only sequence number 3 is dropped by the initial emit and the
\* retransmit delay is 2, sequence number 3 is not on the wire while
\* next_seq_num is below 5, it is retransmitted once next_seq_num has
\* reached 5, and after the retransmission it is marked acknowledged.
C12_RetriedAtFive ==
    /\ [](3 \in dropped_packets /\ next_seq_num < 5 => 3 \notin OnWire)
    /\ (3 \in dropped_packets /\ next_seq_num >= 5)
           ~> (3 \in OnWire /\ total_retransmitted = 1)
    /\ (3 \in dropped_packets /\ 3 \in OnWire) ~> (3 \in acked_packets)

\* C12 witness: 3 was dropped, retransmitted at next_seq_num >= 5 and
\* acknowledged
C12_Witness ==
    /\ dropped_packets = {3}
    /\ total_retransmitted = 1
    /\ 3 \in OnWire
    /\ next_seq_num >= 5
    /\ 3 \in acked_packets

\* C13: after process_sequence_number has processed the announcements 0, 1
\* and 3, in that order, from the initial state, missing_packets is exactly
\* {2} and the highest sequence number seen is 3.
C13_GapAfterZeroOneThree ==
    announced = <<0, 1, 3>> =>
        /\ missing_packets = {2}
        /\ highest_seq_received = 3

\* C13 witness: 0, 1 and 3 have been processed and 2 is recorded missing
C13_Witness ==
    /\ announced = <<0, 1, 3>>
    /\ received_packets = {0, 1, 3}
    /\ missing_packets = {2}

\* the goodput the receiver would compute in the current state
CurrentGoodput == Goodput(received_packets, total_packets_expected)

\* C14 as stated: after the announcements 0, 1, 3 the goodput
\* (received / expected) is 2/3 while 2 has not arrived, and 3/3 once 2 has
\* arrived.
C14_GoodputTwoThirds ==
    /\ announced = <<0, 1, 3>> =>
           CurrentGoodput.num * 3 = CurrentGoodput.den * 2
    /\ announced = <<0, 1, 3, 2>> =>
           CurrentGoodput.num = CurrentGoodput.den

\* C14 as amended: every processed announcement counts as expected, so after
\* 0, 1, 3 the goodput is 3/3 although 2 is missing, and 4/4 once 2 has
\* arrived; the final statistics of a connection closed then log the same.
C14_GoodputCountsAnnouncements ==
    /\ announced = <<0, 1, 3>> =>
           /\ CurrentGoodput = Fraction(3, 3)
           /\ conn = "closed" =>
                  final_statistics =
                      <<[available |-> TRUE, goodput |-> Fraction(3, 3)]>>
    /\ announced = <<0, 1, 3, 2>> =>
           /\ CurrentGoodput = Fraction(4, 4)
           /\ conn = "closed" =>
                  final_statistics =
                      <<[available |-> TRUE, goodput |-> Fraction(4, 4)]>>

\* C14 witness: the connection was closed after 0, 1, 3 with 2 missing and
\* the final goodput was logged
C14_Witness ==
    /\ announced = <<0, 1, 3>>
    /\ 2 \in missing_packets
    /\ conn = "closed"
    /\ final_statistics # << >>

\* C15: whenever the receiver computes goodput, for a periodic sample or in
\* calculate_final_statistics, the value is the received count over the
\* expected count with the expected count positive, and lies in [0, 1]; when
\* the expected count is 0 nothing is divided and the result is reported as
\* unavailable.
C15_GoodputWellDefined ==
    /\ [][goodput_measurements' # goodput_measurements =>
            LET sample == goodput_measurements'[Len(goodput_measurements')]
            IN  /\ sample = Fraction(total_packets_received',
                                     total_packets_expected')
                /\ sample.den > 0
                /\ 0 <= sample.num
                /\ sample.num <= sample.den]_vars
    /\ [][final_statistics' # final_statistics =>
            LET final == final_statistics'[Len(final_statistics')]
            IN  IF total_packets_expected = 0
                THEN ~final.available
                ELSE /\ final.available
                     /\ final.goodput = Fraction(total_packets_received,
                                                 total_packets_expected)
                     /\ 0 <= final.goodput.num
                     /\ final.goodput.num <= final.goodput.den]_vars

\* C15 witness: a periodic sample was taken at the 1000th received packet
\* and the final statistics were calculated at close
C15_Witness ==
    /\ goodput_measurements # << >>
    /\ total_packets_received >= GoodputPeriod
    /\ final_statistics # << >>
    /\ conn = "closed"

\* C16: handle_client sends the success token only after it has received
\* the initiation token, the connection is Active only after that exchange,
\* and the initiation token is never handed to the announcement loop: while
\* the token is unread on the stream the connection is not Active and no
\* success token has been sent.
C16_SuccessAfterToken ==
    \A i \in 1..Len(c2s) :
        c2s[i] = NetworkToken =>
            /\ conn # "active"
            /\ \A j \in 1..Len(s2c) : s2c[j] # SuccessToken

\* a payload that is not a well-formed announcement: not JSON, not a JSON
\* object, or an object without an integer seq_num
Malformed(payload) == payload.kind # "object" \/ payload.seq_num = NoneSeq

\* C17: when the receiver reads a payload that is not a well-formed
\* announcement, its counts, its received set, its missing set and its
\* highest sequence number are unchanged, no acknowledgment is emitted and
\* the connection stays Active; when the sender reads a malformed
\* acknowledgment, its window and acked set are unchanged and the ack task
\* keeps running.
C17_MalformedDiscarded ==
    /\ [][(conn = "active" /\ c2s # << >> /\ c2s' = Tail(c2s)
             /\ Malformed(Head(c2s)))
          => /\ UNCHANGED <<total_packets_expected, total_packets_received,
                            received_packets, missing_packets,
                            highest_seq_received>>
             /\ s2c' = s2c
             /\ conn' = "active"]_vars
    /\ [][(pcAck = "run" /\ s2c # << >> /\ s2c' = Tail(s2c)
             /\ Head(s2c).field # "ack_num")
          => /\ UNCHANGED window
             /\ pcAck' = "run"]_vars

\* C18: when receive_acks observes end-of-stream or a stream error, its loop
\* exits and the engine goes to Closed: running becomes false, so the
\* admission loop and the retransmission loop stop and start() reaches its
\* terminal state.
C18_AckExitClosesEngine ==
    (pcAck = "done") ~> (~running /\ pcMain = "done")

\* C19: once a connection of the receiver is Closed and
\* calculate_final_statistics has run, the final statistics are computed
\* exactly once and the statistics of the receiver never change afterwards,
\* also when the same receiver later accepts another connection.
C19_FinalStatisticsImmutable ==
    [][final_statistics # << >> => UNCHANGED receiver]_vars

\* C20: after running is set to false, each of the three loops of the
\* sender exits after at most one further iteration: the admission loop
\* admits nothing more, receive_acks and handle_retransmissions run at most
\* one more iteration each, start() and handle_retransmissions come to
\* their end; and after all three have exited no sender state changes.
C20_CooperativeStop ==
    /\ [](after_stop.ack <= 1 /\ after_stop.retx <= 1)
    /\ [][(pcMain \in {"closing", "done"})
             => UNCHANGED <<next_seq_num, sent_packets, dropped_packets,
                            total_sent, total_dropped>>]_vars
    /\ (pcMain = "closing") ~> (pcMain = "done" /\ pcRetx = "done")
    /\ [][(pcMain = "done" /\ pcAck = "done" /\ pcRetx = "done")
             => UNCHANGED sender]_vars

\* C20 witness: the engine was stopped, both threads ran one more iteration
\* (a retransmission went out after the flag was down), and all three loops
\* have exited
C20_Witness ==
    /\ after_stop = [ack |-> 1, retx |-> 1]
    /\ total_retransmitted > 0
    /\ pcMain = "done"
    /\ pcAck = "done"
    /\ pcRetx = "done"

\* C21: the sender has no deadlock: no reachable state has the engine
\* running, fewer than total_packets sequence numbers Acked, no announcement
\* and no acknowledgment in flight, admission disabled (the window is full or
\* next_seq_num = total_packets) and a head of the retransmit queue that is
\* not yet due (its due point is above next_seq_num).
C21_NoSenderDeadlock ==
    ~ (/\ running
       /\ Cardinality(acked_packets) < total_packets
       /\ c2s = << >>
       /\ s2c = << >>
       /\ ~CanAdmit
       /\ packets_to_retransmit # << >>
       /\ Head(packets_to_retransmit).due > next_seq_num)

\* C22: with the sender of client.py and the receiver of server_fixed.py no
\* acknowledgment is ever interpreted by receive_acks: acked_packets stays
\* empty, base stays 0, window_size stays at its initial value, admission
\* stops once initial-window-size packets are admitted (or all of them, if
\* there are fewer), and the wait loop of start() never ends by itself.
C22_MixedConventionsStall ==
    /\ acked_packets = {}
    /\ base = 0
    /\ window_size = initial_window
    /\ next_seq_num <= initial_window
    /\ \A i \in 1..Len(s2c) : s2c[i].field # "ack_num"
    /\ pcMain = "wait" => WaitLoopCond

\* C22 witness: the window is full of admitted packets, fewer than the run
\* has; the receiver has got one and the sender has read all its answers
C22_Witness ==
    /\ next_seq_num = initial_window
    /\ initial_window >= 1
    /\ initial_window < total_packets
    /\ received_packets # {}
    /\ c2s = << >>
    /\ s2c = << >>
    /\ pcAck = "run"
    /\ running

\* C23: when send_packet draws a loss it puts nothing on the wire, adds the
\* sequence number to dropped_packets, increments total_dropped by one and
\* appends exactly one entry whose due point is next_seq_num at drop time
\* plus retransmit_after: seq_num + retransmit_after for the initial emit,
\* the then-current next_seq_num + retransmit_after for a drop drawn again
\* inside handle_retransmissions.
C23_DropSchedulesRetry ==
    /\ [][\A r \in RandomDraws :
             (ShouldDrop(r) /\ SendPacket(next_seq_num, r))
             => /\ c2s' = c2s
                /\ dropped_packets' = dropped_packets \cup {next_seq_num}
                /\ total_dropped' = total_dropped + 1
                /\ packets_to_retransmit' =
                       Append(packets_to_retransmit,
                              [seq |-> next_seq_num,
                               due |-> next_seq_num + retransmit_after])
                /\ UNCHANGED <<sent_packets, total_sent>>]_vars
    /\ [][(/\ Retransmit
           /\ HeadDue
           /\ packets_to_retransmit' # Tail(packets_to_retransmit))
          => /\ packets_to_retransmit' =
                    Append(Tail(packets_to_retransmit),
                           [seq |-> Head(packets_to_retransmit).seq,
                            due |-> next_seq_num + retransmit_after])
             /\ c2s' = c2s
             /\ UNCHANGED <<dropped_packets, total_dropped, sent_packets,
                            total_sent, total_retransmitted>>]_vars
    /\ [](\A i \in 1..Len(packets_to_retransmit) :
             LET e == packets_to_retransmit[i]
             IN  /\ e.seq \in dropped_packets
                 /\ e.due - retransmit_after >= e.seq
                 /\ e.due - retransmit_after <= next_seq_num)

\* C23 witness: a packet dropped by the initial emit waits in the queue
\* behind one that was dropped again by handle_retransmissions, after
\* next_seq_num had moved on
C23_Witness ==
    /\ total_dropped >= 2
    /\ \E i, j \in 1..Len(packets_to_retransmit) :
          /\ packets_to_retransmit[i].due =
                 packets_to_retransmit[i].seq + retransmit_after
          /\ packets_to_retransmit[j].due >
                 packets_to_retransmit[j].seq + retransmit_after

\* C24: handle_retransmissions acts only on the head of the FIFO queue and
\* only when the head's due point is <= next_seq_num: an iteration with an
\* empty queue or a head not yet due changes nothing (queue, counters, wire,
\* window); an entry leaves the queue only from the head, when due; and a
\* retransmission is of the head's sequence number.
C24_RetransmitHeadWhenDue ==
    /\ [][(/\ Retransmit
           /\ \/ packets_to_retransmit = << >>
              \/ Head(packets_to_retransmit).due > next_seq_num)
          => UNCHANGED <<window, tracking, wire, receiver>>]_vars
    /\ [][(packets_to_retransmit' # packets_to_retransmit)
          => \/ /\ Len(packets_to_retransmit') =
                       Len(packets_to_retransmit) + 1
                /\ SubSeq(packets_to_retransmit', 1,
                          Len(packets_to_retransmit)) = packets_to_retransmit
             \/ /\ packets_to_retransmit # << >>
                /\ Head(packets_to_retransmit).due <= next_seq_num
                /\ \/ packets_to_retransmit' = Tail(packets_to_retransmit)
                   \/ /\ Len(packets_to_retransmit') =
                             Len(packets_to_retransmit)
                      /\ SubSeq(packets_to_retransmit', 1,
                                Len(packets_to_retransmit) - 1) =
                             Tail(packets_to_retransmit)
                      /\ packets_to_retransmit'[Len(packets_to_retransmit)].seq
                             = Head(packets_to_retransmit).seq]_vars
    /\ [][(total_retransmitted' # total_retransmitted)
          => /\ packets_to_retransmit # << >>
             /\ Head(packets_to_retransmit).due <= next_seq_num
             /\ packets_to_retransmit' = Tail(packets_to_retransmit)
             /\ c2s' = Append(c2s,
                              Announcement(Head(packets_to_retransmit).seq))]_vars

\* C24 witness: after a retransmission has gone out, the thread is in its
\* loop with two entries queued and the head not yet due
C24_Witness ==
    /\ total_retransmitted > 0
    /\ Len(packets_to_retransmit) >= 2
    /\ Head(packets_to_retransmit).due > next_seq_num
    /\ pcRetx = "run"
    /\ running

\* C25: a sequence number that is already Acked is not retransmitted: when
\* handle_retransmissions pops a due entry whose sequence number is in
\* acked_packets it discards the entry: nothing is transmitted, nothing is
\* enqueued again, no counter changes; and every retransmission is of a
\* sequence number not in acked_packets.
C25_AckedNotRetransmitted ==
    /\ [][(/\ Retransmit
           /\ packets_to_retransmit # << >>
           /\ Head(packets_to_retransmit).due <= next_seq_num
           /\ Head(packets_to_retransmit).seq \in acked_packets)
          => /\ packets_to_retransmit' = Tail(packets_to_retransmit)
             /\ c2s' = c2s
             /\ UNCHANGED <<total_retransmitted, retransmission_counts,
                            sent_packets, dropped_packets, total_sent,
                            total_dropped, window>>]_vars
    /\ [][(total_retransmitted' # total_retransmitted
           \/ retransmission_counts' # retransmission_counts)
          => /\ packets_to_retransmit # << >>
             /\ Head(packets_to_retransmit).seq \notin acked_packets]_vars

\* C25 witness: a dropped sequence number was acknowledged before its retry
\* and its entry has left the queue without a transmission
C25_Witness ==
    \E q \in dropped_packets :
        /\ q \in acked_packets
        /\ retransmission_counts[q] = 0
        /\ \A i \in 1..Len(packets_to_retransmit) :
              packets_to_retransmit[i].seq # q

\* the number of entries of the retransmit queue for sequence number q
QueuedEntries(q) ==
    Cardinality({i \in 1..Len(packets_to_retransmit) :
                    packets_to_retransmit[i].seq = q})

\* C26: in every reachable state each admitted sequence number
\* (below next_seq_num) that has been put on the wire has no entry in the
\* retransmit queue, and each one that has not been put on the wire has
\* exactly one, unless it is Acked (an entry goes only by a successful
\* retransmission or because its sequence number is Acked): a dropped packet
\* is not forgotten, also when the socket send raises.
C26_DroppedNotForgotten ==
    \A q \in 0..(next_seq_num - 1) :
        IF q \in OnWire
        THEN QueuedEntries(q) = 0
        ELSE q \in acked_packets \/ QueuedEntries(q) = 1

\* C27: every sequence number that has gone through the initial emit is in
\* exactly one of the states Sent and Dropped: each seq below next_seq_num
\* is in exactly one of sent_packets and dropped_packets, and
\* total_sent + total_dropped = next_seq_num, also when the socket send
\* inside send_packet fails.
C27_SentOrDropped ==
    /\ \A q \in 0..(next_seq_num - 1) :
          (q \in sent_packets) # (q \in dropped_packets)
    /\ total_sent + total_dropped = next_seq_num

\* C28: base and window_size are changed only by the handling of an
\* acknowledgment: a step of the admission loop or of
\* handle_retransmissions (any step that changes next_seq_num, the tracking
\* sets and counters, the queue or what is on the wire) leaves base,
\* window_size and acked_packets unchanged; and an acknowledgment for a
\* sequence number other than the current base adds it to acked_packets and
\* leaves base, window_size and next_seq_num unchanged.
C28_WindowMovedOnlyByAck ==
    /\ [][(next_seq_num' # next_seq_num \/ tracking' # tracking
           \/ c2s' # c2s)
          => UNCHANGED <<base, window_size, acked_packets>>]_vars
    /\ [][(base' # base \/ window_size' # window_size
           \/ acked_packets' # acked_packets)
          => \E a \in AckValues :
                HandleAck([field |-> "ack_num", value |-> a])]_vars
    /\ [][\A a \in AckValues :
             (HandleAck([field |-> "ack_num", value |-> a])
                 /\ (a - 1) # base)
             => /\ acked_packets' = acked_packets \cup {a - 1}
                /\ UNCHANGED <<base, window_size, next_seq_num>>]_vars

\* C28 witness: an acknowledgment for a sequence number above the base has
\* been handled, and a retransmission has gone out, with base and
\* window_size still where they started
C28_Witness ==
    /\ base = 0
    /\ window_size = initial_window
    /\ base \notin acked_packets
    /\ \E q \in acked_packets : q > base /\ q < next_seq_num
    /\ total_retransmitted > 0

\* C29: window_size increases only in a step that handles an
\* acknowledgment and in which base strictly advances, and then by exactly
\* 1 however far base moved, capped at the maximum; an acknowledgment that
\* does not move base, including one equal to base when
\* base = next_seq_num, never changes window_size.
C29_WindowGrowsWithBase ==
    /\ [][(window_size' # window_size)
          => /\ base' > base
             /\ window_size' = window_size + 1
             /\ window_size' <= MaxWindow]_vars
    /\ [][(base' = base) => (window_size' = window_size)]_vars

\* C30: base is the oldest unacknowledged sequence number: in every
\* reachable state every sequence number below base is in acked_packets,
\* and whenever base < next_seq_num, base itself is not in acked_packets
\* (base does not get stuck on an Acked sequence number), whatever the
\* order and duplication of the acknowledgments.
C30_BaseIsOldestUnacked ==
    /\ \A q \in 0..(base - 1) : q \in acked_packets
    /\ base < next_seq_num => base \notin acked_packets

\* C31: every access of the three sender tasks to the shared state happens
\* inside the one lock: at most one task is inside it, the shared state
\* changes only in a step of a task that is inside it, and each admit step
\* is atomic with respect to the other tasks from the evaluation of its loop
\* condition on: between the test of the loop condition and the block under
\* the lock no other task changes the shared state, and the loop conditions
\* of start() are not evaluated while another task is inside the lock.
C31_SingleLockAtomic ==
    /\ [](Cardinality(LockedBy) <= 1)
    /\ [][(window' # window \/ tracking' # tracking) => LockedBy # {}]_vars
    /\ [][(pcMain = "admit_wait") => UNCHANGED <<window, tracking>>]_vars
    /\ [][(pcMain \in {"admit", "wait"} /\ pcMain' # pcMain)
          => LockedBy = {}]_vars

\* the retransmission-observed counter of seq_num in stats (a defaultdict:
\* 0 for a key never counted)
Observed(stats, seq_num) ==
    IF seq_num \in DOMAIN stats THEN stats[seq_num] ELSE 0

\* C32: when process_sequence_number of server.py gets a sequence number
\* already marked received, it increments total_packets_expected and the
\* retransmission counter of that sequence number by one each (and no other
\* counter of that map), and leaves total_packets_received,
\* received_packets, missing_packets and highest_seq_received unchanged.
C32_DuplicateOnlyCounted ==
    [][(/\ announced' # announced
        /\ Head(c2s).seq_num \in received_packets)
       => /\ total_packets_expected' = total_packets_expected + 1
          /\ Observed(retransmission_stats', Head(c2s).seq_num) =
                 Observed(retransmission_stats, Head(c2s).seq_num) + 1
          /\ \A q \in (DOMAIN retransmission_stats
                          \cup DOMAIN retransmission_stats')
                      \ {Head(c2s).seq_num} :
                 Observed(retransmission_stats', q) =
                     Observed(retransmission_stats, q)
          /\ UNCHANGED <<total_packets_received, received_packets,
                         missing_packets, highest_seq_received>>]_vars

\* C32 witness: one sequence number has arrived three times, below the
\* highest one seen and with a gap recorded
C32_Witness ==
    /\ \E q \in DOMAIN retransmission_stats :
          retransmission_stats[q] = 2 /\ q < highest_seq_received
    /\ missing_packets # {}

\* the sequence numbers among the received ones (None left aside)
ReceivedSeqNums == received_packets \ {NoneSeq}

\* C33: when the receiver processes a not yet received sequence number s
\* above the highest seen value h, missing_packets afterwards is the
\* previous set united with exactly the integers i with h < i < s, and the
\* highest seen becomes s; when s is new but below h, missing_packets and
\* the highest seen are unchanged; the highest seen value never decreases
\* and always is the maximum of the received set (-1 when nothing was
\* received).
C33_GapsAboveHighest ==
    /\ [][(/\ announced' # announced
           /\ Head(c2s).seq_num # NoneSeq
           /\ Head(c2s).seq_num \notin received_packets)
          => IF Head(c2s).seq_num > highest_seq_received
             THEN /\ missing_packets' =
                         missing_packets \cup
                             ((highest_seq_received + 1)..
                                  (Head(c2s).seq_num - 1))
                  /\ highest_seq_received' = Head(c2s).seq_num
             ELSE UNCHANGED <<missing_packets, highest_seq_received>>]_vars
    /\ [][highest_seq_received' >= highest_seq_received]_vars
    /\ [](IF ReceivedSeqNums = {}
          THEN highest_seq_received = -1
          ELSE /\ highest_seq_received \in ReceivedSeqNums
               /\ \A q \in ReceivedSeqNums : q <= highest_seq_received)

\* C33 witness: two gaps were recorded and then a sequence number below the
\* highest one arrived for the first time
C33_Witness ==
    /\ Cardinality(missing_packets) >= 2
    /\ announced # << >>
    /\ announced[Len(announced)] \in missing_packets
    /\ announced[Len(announced)] < highest_seq_received
    /\ retransmission_stats = << >>

\* C34: missing_packets never loses a member: no step removes a sequence
\* number from it, and a later arrival of a sequence number that is in it
\* marks the number received and leaves missing_packets unchanged.
C34_GapSetOnlyGrows ==
    /\ [][missing_packets \subseteq missing_packets']_vars
    /\ [][(/\ announced' # announced
           /\ Head(c2s).seq_num \in missing_packets)
          => /\ missing_packets' = missing_packets
             /\ Head(c2s).seq_num \in received_packets']_vars

\* C34 witness: a sequence number recorded as missing has arrived since,
\* and after it a further announcement was processed
C34_Witness ==
    /\ \E q \in missing_packets : q \in received_packets
    /\ announced # << >>
    /\ announced[Len(announced)] \notin missing_packets
    /\ conn = "closed"

\* C35: in every reachable receiver state each member of missing_packets is
\* strictly less than the highest sequence number seen and has not yet been
\* received (missing_packets and received_packets are disjoint).
C35_GapSetDisjoint ==
    /\ \A q \in missing_packets : q < highest_seq_received
    /\ missing_packets \cap received_packets = {}

\* C35 as the code has it: each member of missing_packets is strictly less
\* than the highest sequence number seen and was not received when it was
\* added; a member that arrives later is marked received and stays in
\* missing_packets.
C35_GapSetBelowHighest ==
    /\ [](\A q \in missing_packets : q >= 0 /\ q < highest_seq_received)
    /\ [][(missing_packets' \ missing_packets) \cap received_packets' = {}]_vars
    /\ [][received_packets \subseteq received_packets']_vars

\* C35 witness: of two sequence numbers recorded as missing one has arrived
\* since and the other has not
C35_Witness ==
    /\ \E q \in missing_packets : q \in received_packets
    /\ \E q \in missing_packets : q \notin received_packets

\* the windows of a sender that has admitted the sequence numbers
\* 0 .. MaxPeerGap: everything below base is Acked
SenderWindows ==
    {w \in [base : 0..MaxPeerGap,
            next_seq_num : {MaxPeerGap + 1},
            window_size : {1},
            acked_packets : SUBSET (0..MaxPeerGap)] :
        \A q \in 0..(w.base - 1) : q \in w.acked_packets}

\* C36: the receiver emits exactly one acknowledgment per announcement it
\* processes, new or duplicate, with its state already updated for that
\* announcement and in the order of arrival; in server.py the acknowledgment
\* carries seq_num + 1, and receive_acks marks exactly ack_num - 1 as Acked,
\* which is the announced sequence number.
C36_OneAckPerAnnouncement ==
    /\ [][(announced' # announced /\ Head(c2s).seq_num # NoneSeq)
          => /\ s2c' = Append(s2c, [field |-> "ack_num",
                                    value |-> Head(c2s).seq_num + 1])
             /\ Head(c2s).seq_num \in received_packets'
             /\ announced' = Append(announced, Head(c2s).seq_num)]_vars
    /\ [][(s2c' # s2c /\ conn = "active")
          => /\ announced' # announced
             /\ Len(s2c') = Len(s2c) + 1]_vars
    /\ [](\A q \in 0..MaxPeerGap : \A w \in SenderWindows :
             OnAck(w, AckMessage(q).value).acked_packets =
                 w.acked_packets \cup {q})

\* C36 witness: the same sequence number was announced twice and
\* acknowledged twice, with another acknowledgment after them
C36_Witness ==
    /\ retransmission_stats # << >>
    /\ \E i, j \in 1..Len(s2c) :
          /\ i < j
          /\ j < Len(s2c)
          /\ s2c[i].field = "ack_num"
          /\ s2c[i] = s2c[j]

\* C37: the receiver records a goodput sample exactly once each time the
\* number of announcements processed reaches a positive multiple of the
\* sampling period (1000), and at no other time; a duplicate announcement
\* that arrives while the count sits at a multiple records no further
\* sample.
C37_SampleOncePerPeriod ==
    /\ [][(goodput_measurements' # goodput_measurements)
          => /\ announced' # announced
             /\ Len(announced') % GoodputPeriod = 0
             /\ Len(goodput_measurements') =
                    Len(goodput_measurements) + 1]_vars
    /\ [][(announced' # announced
           /\ Len(announced') % GoodputPeriod = 0)
          => Len(goodput_measurements') =
                 Len(goodput_measurements) + 1]_vars
    /\ [](Len(goodput_measurements) = Len(announced) \div GoodputPeriod)

\* the keys of retransmission_counts: the sequence numbers with an entry
RetransmittedSeqNums == {q \in SeqNums : retransmission_counts[q] > 0}

\* C38: the sender puts each sequence number on the wire at most once over
\* the whole run, by the initial emit or by one successful retransmission,
\* never both and never twice; so every value in retransmission_counts is
\* exactly 1 and total_retransmitted equals the number of keys of
\* retransmission_counts.
C38_OnWireAtMostOnce ==
    /\ [][\A q \in SeqNums :
            (c2s' = Append(c2s, Announcement(q))) => q \notin OnWire]_vars
    /\ [](/\ sent_packets \cap RetransmittedSeqNums = {}
          /\ \A q \in RetransmittedSeqNums : retransmission_counts[q] = 1
          /\ total_retransmitted = Cardinality(RetransmittedSeqNums))

\* two packets were retransmitted and another went out by the initial emit
C38_Witness ==
    /\ Cardinality(RetransmittedSeqNums) = 2
    /\ sent_packets # {}
    /\ total_retransmitted = 2

\* C39: in the composition of client.py with server.py over an ordered
\* reliable stream the receiver never observes a duplicate announcement:
\* retransmission_stats stays empty, total_packets_received =
\* total_packets_expected = size of received_packets in every reachable
\* state, and every goodput value it computes equals 1, however many
\* packets the sender dropped.
C39_ReceiverSeesNoDuplicate ==
    /\ DOMAIN retransmission_stats = {}
    /\ total_packets_received = total_packets_expected
    /\ total_packets_received = Cardinality(received_packets)
    /\ \A i \in 1..Len(goodput_measurements) :
           goodput_measurements[i].num = goodput_measurements[i].den
    /\ \A i \in 1..Len(final_statistics) :
           final_statistics[i].available
               => final_statistics[i].goodput.num =
                      final_statistics[i].goodput.den

\* the connection ended after the sender had dropped a packet and
\* retransmitted it, and the receiver computed its final goodput
C39_Witness ==
    /\ total_dropped > 0
    /\ total_retransmitted > 0
    /\ total_packets_received = total_packets
    /\ total_packets > 1
    /\ Len(final_statistics) = 1
    /\ final_statistics[1].available

\* C40: the sender's retransmit queue is always ordered by due point: in
\* every reachable state the due points of packets_to_retransmit are
\* non-decreasing from head to tail, so whenever the head is not yet
\* actionable no other entry of the queue is actionable either.
C40_QueueOrderedByDue ==
    /\ \A i, j \in 1..Len(packets_to_retransmit) :
           i < j => packets_to_retransmit[i].due <= packets_to_retransmit[j].due
    /\ (packets_to_retransmit # << >> /\ ~HeadDue)
           => \A i \in 1..Len(packets_to_retransmit) :
                  packets_to_retransmit[i].due > next_seq_num

\* a packet that was dropped again on retransmission waits behind a packet
\* with a higher sequence number and an earlier due point
C40_Witness ==
    \E i, j \in 1..Len(packets_to_retransmit) :
        /\ i < j
        /\ packets_to_retransmit[i].seq > packets_to_retransmit[j].seq
        /\ packets_to_retransmit[i].due < packets_to_retransmit[j].due

=============================================================================
